---- MODULE Spec2Model ----
(***************************************************************************)
(* State-machine model of CZnodeSync (src/src/znode-sync.cpp): the asset   *)
(* synchronization coordinator, its blockchain sync gate                   *)
(* (IsBlockchainSynced) and the peer height check (CheckNodeHeight).       *)
(*                                                                         *)
(* Every operation of the class is one action; the functions it calls are *)
(* operators over a record `m` of the object's members, the function-local *)
(* statics of IsBlockchainSynced and the fulfilled-request ledger, so that *)
(* a call chain inside one handler is one atomic step.                     *)
(*                                                                         *)
(* Time.  The code reads GetTime() only to store it and to compare it with *)
(* a stored timestamp, so its behaviour does not change when the clock and *)
(* every stored timestamp are shifted together.  The model keeps the clock *)
(* reading fixed at `now` and lets d seconds pass by moving the stored     *)
(* timestamps d seconds into the past (action AdvanceTime); a timestamp    *)
(* older than every threshold it is compared with stops ageing.            *)
(***************************************************************************)
EXTENDS Integers, Sequences, FiniteSets, TLC

VARIABLES
    network,                    \* Params().NetworkIDString()
    nRequestedZnodeAssets,      \* CZnodeSync members
    nRequestedZnodeAttempt,
    nTimeAssetSyncStarted,
    nTimeLastZnodeList,
    nTimeLastPaymentVote,
    nTimeLastGovernanceItem,
    nTimeLastFailure,
    nCountFailures,
    pCurrentBlockIndex,
    fBlockchainSynced,          \* statics of IsBlockchainSynced
    nTimeLastProcess,
    fFirstBlockAccepted,
    nTick,                      \* static of ProcessTick, kept modulo the tick period
    netfulfilledman,            \* set of <<addr, label>> records
    call,                       \* the last call of ProcessTick or IsBlockchainSynced
    out                         \* what that call did to its environment

vars == <<network, nRequestedZnodeAssets, nRequestedZnodeAttempt,
          nTimeAssetSyncStarted, nTimeLastZnodeList, nTimeLastPaymentVote,
          nTimeLastGovernanceItem, nTimeLastFailure, nCountFailures,
          pCurrentBlockIndex, fBlockchainSynced, nTimeLastProcess,
          fFirstBlockAccepted, nTick, netfulfilledman, call, out>>

----------------------------------------------------------------------------
(* Bounds of the model.                                                     *)

\* While the node is awake IsBlockchainSynced is called again before more than
\* MaxAwake seconds have passed since its last evaluation.
MaxAwake == 30
\* The clock reading, in the frame the model keeps.
now == 4000
\* Heights range over 0..MaxHeight in the height-check specification.
MaxHeight == 5

----------------------------------------------------------------------------
(* Program constants.                                                       *)

\* znode-sync.h (not among the sources): the asset identifiers and periods.
ZNODE_SYNC_FAILED == -1
ZNODE_SYNC_INITIAL == 0
ZNODE_SYNC_SPORKS == 1
ZNODE_SYNC_LIST == 2
ZNODE_SYNC_MNW == 3
ZNODE_SYNC_GOVERNANCE == 4
ZNODE_SYNC_FINISHED == 999
ZNODE_SYNC_TICK_SECONDS == 6
ZNODE_SYNC_TIMEOUT_SECONDS == 30
ZNODE_SYNC_ENOUGH_PEERS == 3

\* if (GetTime() - nTimeLastProcess > 60 * 60)
IdleSeconds == 60 * 60
\* if (nTimeLastFailure + (1 * 60) < GetTime())
CooldownSeconds == 1 * 60
\* pindexBestHeader->nHeight - pCurrentBlockIndex->nHeight < 24 * 6
HeaderMargin == 24 * 6
\* Params().MaxTipAge(), mnpayments.GetMinZnodePaymentsProto(): collaborators
MaxTipAge == 21600
GetMinZnodePaymentsProto == 90024

\* A pointer is the empty sequence (null) or holds the object it points to.
NULL == <<>>
Ptr(x) == <<x>>
Deref(p) == p[1]
Unset == -1         \* a function-local static before its first-call initialisation

REGTEST == "regtest"
MAIN == "main"

Labels == {"spork-sync", "znode-list-sync", "znode-payment-sync", "full-sync"}

GETSPORKS == "getsporks"
DSEG == "dseg"                          \* mnodeman.DsegUpdate(pnode)
ZNODEPAYMENTSYNC == "mnget"             \* NetMsgType::ZNODEPAYMENTSYNC
LOWDATA == "getdata"                    \* mnpayments.RequestLowDataPaymentBlocks(pnode)

----------------------------------------------------------------------------
(* Peers.  A CNode carries its address, its role flags, its protocol        *)
(* version and what GetNodeStateStats reports for it.                       *)

Stats(ok, common, sync) == [ok |-> ok, nCommonHeight |-> common, nSyncHeight |-> sync]

CNode(addr, fZnode, fInbound, nVersion, stats) ==
    [addr |-> addr, fZnode |-> fZnode, fInbound |-> fInbound,
     nVersion |-> nVersion, stats |-> stats]

\* The local chain heights UpdatedBlockTip delivers.
TipHeights == {11}

\* The peers the environment connects.  Addresses 1 and 3 are outbound peers
\* of the current version that follow the local chain.  Address 2 connects
\* in one of four ways: like them, as a service-node connection, as an
\* inbound peer of an older version, or as a peer that announces blocks far
\* ahead of the local chain.
Peer(addr) == CNode(addr, FALSE, FALSE, GetMinZnodePaymentsProto, Stats(TRUE, 11, 12))

Nodes ==
    { Peer(1), Peer(2), Peer(3),
      CNode(2, TRUE, FALSE, GetMinZnodePaymentsProto, Stats(TRUE, 10, 10)),
      CNode(2, FALSE, TRUE, GetMinZnodePaymentsProto - 1, Stats(TRUE, 11, 12)),
      CNode(2, FALSE, FALSE, GetMinZnodePaymentsProto, Stats(TRUE, 11, 14)) }

Addrs == {n.addr : n \in Nodes}

Range(s) == {s[i] : i \in 1..Len(s)}

\* CopyNodeVector(): no peer at all, or one peer at every address, in the
\* order of vNodes: by rising address, or Peer(3), Peer(2), Peer(1).
Snapshots ==
    {<<>>, <<Peer(3), Peer(2), Peer(1)>>}
        \cup {<<Peer(1), n, Peer(3)>> : n \in {n \in Nodes : n.addr = 2}}

----------------------------------------------------------------------------
(* CZnodeSync::CheckNodeHeight, lines 20-45.  Returns the result and        *)
(* whether pnode->fDisconnect was set.                                      *)

\* The two margins as they would be if they were a block wider.
StuckByTwo(nHeight, stats) == nHeight - 2 > stats.nCommonHeight
PrecociousByThree(nHeight, stats) == nHeight < stats.nSyncHeight - 3

Stuck(nHeight, stats) == nHeight - 1 > stats.nCommonHeight

Precocious(nHeight, stats) == nHeight < stats.nSyncHeight - 1

CheckNodeHeight(nHeight, stats, fDisconnectStuckNodes) ==
    IF ~stats.ok \/ stats.nCommonHeight = -1 \/ stats.nSyncHeight = -1
    THEN [ret |-> FALSE, fDisconnect |-> FALSE]
    ELSE IF Stuck(nHeight, stats)
    THEN [ret |-> FALSE, fDisconnect |-> fDisconnectStuckNodes]
    ELSE IF Precocious(nHeight, stats)
    THEN [ret |-> FALSE, fDisconnect |-> FALSE]
    ELSE [ret |-> TRUE, fDisconnect |-> FALSE]

----------------------------------------------------------------------------
(* The chain index and the other globals IsBlockchainSynced reads.  Block   *)
(* times are given by their age at the time of the call.                    *)

BlockIndex(nHeight, age) == Ptr([nHeight |-> nHeight, age |-> age])

ChainEnv(header, fImporting, fReindex, fCheckpointsEnabled, estimate, tipAge) ==
    [pindexBestHeader |-> header, fImporting |-> fImporting, fReindex |-> fReindex,
     fCheckpointsEnabled |-> fCheckpointsEnabled,
     nTotalBlocksEstimate |-> estimate, tipAge |-> tipAge]

\* The chain while it is being imported, behind the last checkpoint, with a
\* recent tip, and with headers far ahead of a tip that is old.
Importing == ChainEnv(BlockIndex(12, 60), TRUE, FALSE, FALSE, 0, 60)

ChainEnvs ==
    { Importing,
      ChainEnv(BlockIndex(12, 60), FALSE, FALSE, TRUE, 20, 60),
      ChainEnv(BlockIndex(12, 60), FALSE, FALSE, TRUE, 5, 60),
      ChainEnv(BlockIndex(12 + HeaderMargin, 60), FALSE, FALSE, FALSE, 20, MaxTipAge) }

Max(a, b) == IF a >= b THEN a ELSE b

----------------------------------------------------------------------------
(* The object: the members of CZnodeSync, the statics of                    *)
(* IsBlockchainSynced, the fulfilled-request ledger, and `eff`, what the    *)
(* running handler has done to its environment so far.                      *)

NoEffects ==
    [sent |-> {},               \* <<addr, message>> pushed to peers
     fDisconnect |-> {},        \* addresses whose pnode->fDisconnect was set
     ManageState |-> 0,         \* calls of activeZnode.ManageState()
     TryLock |-> "none",        \* outcome of TRY_LOCK(cs_vNodes), if taken
     threw |-> FALSE,           \* std::runtime_error left SwitchToNextAsset
     timeCheck |-> FALSE,       \* the 60-minute reset of IsBlockchainSynced ran
     restart |-> FALSE,         \* "not enough data, restarting sync", line 287
     moves |-> 0,               \* times nRequestedZnodeAssets changed its value
     gate |-> <<>>,             \* results of the IsBlockchainSynced calls
     nSkipped |-> 0,            \* times nSkipped++ ran, line 75
     behind |-> FALSE,          \* an evaluation returned at line 90
     working |-> FALSE]         \* the tick passed its two early returns

Cur ==
    [nRequestedZnodeAssets |-> nRequestedZnodeAssets,
     nRequestedZnodeAttempt |-> nRequestedZnodeAttempt,
     nTimeAssetSyncStarted |-> nTimeAssetSyncStarted,
     nTimeLastZnodeList |-> nTimeLastZnodeList,
     nTimeLastPaymentVote |-> nTimeLastPaymentVote,
     nTimeLastGovernanceItem |-> nTimeLastGovernanceItem,
     nTimeLastFailure |-> nTimeLastFailure,
     nCountFailures |-> nCountFailures,
     pCurrentBlockIndex |-> pCurrentBlockIndex,
     fBlockchainSynced |-> fBlockchainSynced,
     nTimeLastProcess |-> nTimeLastProcess,
     fFirstBlockAccepted |-> fFirstBlockAccepted,
     netfulfilledman |-> netfulfilledman,
     eff |-> NoEffects]

\* nRequestedZnodeAssets = a
Assign(m, a) ==
    [m EXCEPT !.nRequestedZnodeAssets = a,
              !.eff.moves = IF m.nRequestedZnodeAssets = a THEN @ ELSE @ + 1]

IsSynced(m) == m.nRequestedZnodeAssets = ZNODE_SYNC_FINISHED       \* znode-sync.h
IsFailed(m) == m.nRequestedZnodeAssets = ZNODE_SYNC_FAILED         \* znode-sync.h

HasFulfilledRequest(m, addr, label) == <<addr, label>> \in m.netfulfilledman

AddFulfilledRequest(m, addr, label) ==
    [m EXCEPT !.netfulfilledman = @ \cup {<<addr, label>>}]

PushMessage(m, addr, msg) == [m EXCEPT !.eff.sent = @ \cup {<<addr, msg>>}]

\* Fail as it would be if it restarted the cycle instead of failing it.
FailRestarts(m, t) ==
    [Assign(m, ZNODE_SYNC_INITIAL) EXCEPT !.nTimeLastFailure = t]

\* CZnodeSync::Fail, lines 129-132
Fail(m, t) ==
    [Assign(m, ZNODE_SYNC_FAILED) EXCEPT !.nTimeLastFailure = t]

\* CZnodeSync::Reset, lines 134-143
Reset(m, t) ==
    [Assign(m, ZNODE_SYNC_INITIAL) EXCEPT
              !.nRequestedZnodeAttempt = 0,
              !.nTimeAssetSyncStarted = t,
              !.nTimeLastZnodeList = t,
              !.nTimeLastPaymentVote = t,
              !.nTimeLastGovernanceItem = t,
              !.nTimeLastFailure = 0,
              !.nCountFailures = 0]

\* CZnodeSync::ClearFulfilledRequests, lines 257-268.  vNodes is the live
\* peer list, lockRecv whether TRY_LOCK(cs_vNodes) got the lock.
ClearFulfilledRequests(m, vNodes, lockRecv) ==
    IF ~lockRecv
    THEN [m EXCEPT !.eff.TryLock = "busy"]
    ELSE [m EXCEPT !.eff.TryLock = "held",
                   !.netfulfilledman =
                        {r \in @ : r[1] \notin {n.addr : n \in Range(vNodes)}}]

\* SwitchToNextAsset as it would be if the case of ZNODE_SYNC_FAILED did not
\* throw and left the switch like the others.
SwitchFromFailed(m, t, vNodes, lockRecv) ==
    LET a == m.nRequestedZnodeAssets
        done(x) == [x EXCEPT !.nRequestedZnodeAttempt = 0,
                             !.nTimeAssetSyncStarted = t]
    IN  IF a = ZNODE_SYNC_INITIAL
        THEN done(Assign(ClearFulfilledRequests(m, vNodes, lockRecv),
                         ZNODE_SYNC_SPORKS))
        ELSE IF a = ZNODE_SYNC_SPORKS
        THEN done(Assign([m EXCEPT !.nTimeLastZnodeList = t], ZNODE_SYNC_LIST))
        ELSE IF a = ZNODE_SYNC_LIST
        THEN done(Assign([m EXCEPT !.nTimeLastPaymentVote = t], ZNODE_SYNC_MNW))
        ELSE IF a = ZNODE_SYNC_MNW
        THEN LET m1 == [Assign([m EXCEPT !.nTimeLastGovernanceItem = t],
                               ZNODE_SYNC_FINISHED)
                           EXCEPT !.eff.ManageState = @ + 1]
             IN  IF ~lockRecv
                 THEN [m1 EXCEPT !.eff.TryLock = "busy"]
                 ELSE done([m1 EXCEPT !.eff.TryLock = "held",
                                      !.netfulfilledman = @ \cup
                                          {<<n.addr, "full-sync">> : n \in Range(vNodes)}])
        ELSE done(m)

\* SwitchToNextAsset as it would be if the case of ZNODE_SYNC_MNW left the
\* switch before it marked the peers.
SwitchLeavesPeers(m, t, vNodes, lockRecv) ==
    LET a == m.nRequestedZnodeAssets
        done(x) == [x EXCEPT !.nRequestedZnodeAttempt = 0,
                             !.nTimeAssetSyncStarted = t]
    IN  IF a = ZNODE_SYNC_FAILED
        THEN [m EXCEPT !.eff.threw = TRUE]
        ELSE IF a = ZNODE_SYNC_INITIAL
        THEN done(Assign(ClearFulfilledRequests(m, vNodes, lockRecv),
                         ZNODE_SYNC_SPORKS))
        ELSE IF a = ZNODE_SYNC_SPORKS
        THEN done(Assign([m EXCEPT !.nTimeLastZnodeList = t], ZNODE_SYNC_LIST))
        ELSE IF a = ZNODE_SYNC_LIST
        THEN done(Assign([m EXCEPT !.nTimeLastPaymentVote = t], ZNODE_SYNC_MNW))
        ELSE IF a = ZNODE_SYNC_MNW
        THEN done([Assign([m EXCEPT !.nTimeLastGovernanceItem = t],
                          ZNODE_SYNC_FINISHED)
                      EXCEPT !.eff.ManageState = @ + 1])
        ELSE done(m)

\* CZnodeSync::SwitchToNextAsset, lines 166-220
SwitchToNextAsset(m, t, vNodes, lockRecv) ==
    LET a == m.nRequestedZnodeAssets
        done(x) == [x EXCEPT !.nRequestedZnodeAttempt = 0,
                             !.nTimeAssetSyncStarted = t]
    IN  IF a = ZNODE_SYNC_FAILED
        THEN [m EXCEPT !.eff.threw = TRUE]
        ELSE IF a = ZNODE_SYNC_INITIAL
        THEN done(Assign(ClearFulfilledRequests(m, vNodes, lockRecv),
                         ZNODE_SYNC_SPORKS))
        ELSE IF a = ZNODE_SYNC_SPORKS
        THEN done(Assign([m EXCEPT !.nTimeLastZnodeList = t], ZNODE_SYNC_LIST))
        ELSE IF a = ZNODE_SYNC_LIST
        THEN done(Assign([m EXCEPT !.nTimeLastPaymentVote = t], ZNODE_SYNC_MNW))
        ELSE IF a = ZNODE_SYNC_MNW
        THEN LET m1 == [Assign([m EXCEPT !.nTimeLastGovernanceItem = t],
                               ZNODE_SYNC_FINISHED)
                           EXCEPT !.eff.ManageState = @ + 1]
             IN  IF ~lockRecv
                 THEN [m1 EXCEPT !.eff.TryLock = "busy"]       \* return, line 209
                 ELSE done([m1 EXCEPT !.eff.TryLock = "held",
                                      !.netfulfilledman = @ \cup
                                          {<<n.addr, "full-sync">> : n \in Range(vNodes)}])
        ELSE done(m)            \* no case matches (GOVERNANCE, FINISHED)

----------------------------------------------------------------------------
(* CZnodeSync::IsBlockchainSynced, lines 47-127.  m.nTimeLastProcess is     *)
(* Unset until the first call initialises the static to GetTime().          *)

RECURSIVE NodesAtSameHeight(_, _)
NodesAtSameHeight(vNodesCopy, nHeight) ==
    IF vNodesCopy = <<>> THEN 0
    ELSE (IF CheckNodeHeight(nHeight, Head(vNodesCopy).stats, FALSE).ret THEN 1 ELSE 0)
         + NodesAtSameHeight(Tail(vNodesCopy), nHeight)

\* The idle test as it would be with a threshold of two hours.
TimeCheckTwoHours(m, t) == t - m.nTimeLastProcess > 2 * IdleSeconds

TimeCheck(m, t) == t - m.nTimeLastProcess > IdleSeconds

\* The throttle as it would be if no call were skipped.
SkipNever(m, t) == t - m.nTimeLastProcess < 0

\* if (GetTime() - nTimeLastProcess < ZNODE_SYNC_TICK_SECONDS), line 74
Skip(m, t) == t - m.nTimeLastProcess < ZNODE_SYNC_TICK_SECONDS

\* The checkpoint test as it would be if it compared with the height after
\* the estimate.
BehindCheckpointNext(m, env) ==
    env.fCheckpointsEnabled
        /\ Deref(m.pCurrentBlockIndex).nHeight < env.nTotalBlocksEstimate - 10

\* lines 89-91
BehindCheckpoint(m, env) ==
    env.fCheckpointsEnabled
        /\ Deref(m.pCurrentBlockIndex).nHeight < env.nTotalBlocksEstimate

TipRecent(m, t, env) ==
    LET nMaxBlockTime == Max(t - env.tipAge, t - Deref(env.pindexBestHeader).age)
    IN  /\ Deref(env.pindexBestHeader).nHeight - Deref(m.pCurrentBlockIndex).nHeight
                < HeaderMargin
        /\ t - nMaxBlockTime < MaxTipAge

IsBlockchainSynced(m, fBlockAccepted, t, env, vNodesCopy) ==
    LET m0 == [m EXCEPT !.nTimeLastProcess = IF @ = Unset THEN t ELSE @]
        m1 == IF TimeCheck(m0, t)
              THEN [Reset(m0, t) EXCEPT !.fBlockchainSynced = FALSE,
                                        !.eff.timeCheck = TRUE]
              ELSE m0
        return(x, v) == [x EXCEPT !.eff.gate = Append(@, v)]
    IN  IF \/ m1.pCurrentBlockIndex = NULL \/ env.pindexBestHeader = NULL
           \/ env.fImporting \/ env.fReindex
        THEN return(m1, FALSE)
        ELSE IF fBlockAccepted /\ ~IsSynced(m1)
        THEN return([m1 EXCEPT !.fFirstBlockAccepted = TRUE,
                               !.fBlockchainSynced = FALSE,
                               !.nTimeLastProcess = t], FALSE)
        ELSE IF ~fBlockAccepted /\ Skip(m1, t)
        THEN return([m1 EXCEPT !.eff.nSkipped = @ + 1], m1.fBlockchainSynced)
        ELSE
        LET m2 == [m1 EXCEPT !.nTimeLastProcess = t]
        IN  IF m2.fBlockchainSynced THEN return(m2, TRUE)
            ELSE IF BehindCheckpoint(m2, env)
            THEN return([m2 EXCEPT !.eff.behind = TRUE], FALSE)
            ELSE IF /\ Len(vNodesCopy) >= ZNODE_SYNC_ENOUGH_PEERS
                    /\ NodesAtSameHeight(vNodesCopy, Deref(m2.pCurrentBlockIndex).nHeight)
                          >= ZNODE_SYNC_ENOUGH_PEERS
            THEN return([m2 EXCEPT !.fBlockchainSynced = TRUE], TRUE)
            ELSE IF ~m2.fFirstBlockAccepted THEN return(m2, FALSE)
            ELSE return([m2 EXCEPT !.fBlockchainSynced = TipRecent(m2, t, env)],
                        TipRecent(m2, t, env))

\* The value the last IsBlockchainSynced call returned.
GateRet(m) == m.eff.gate[Len(m.eff.gate)]

----------------------------------------------------------------------------
(* CZnodeSync::ProcessTick, lines 270-514.  `in` holds what the tick reads  *)
(* from its collaborators: nMnCount (mnodeman.CountZnodes()), env (the      *)
(* chain globals), vNodes (the connected peers), fEnoughData                *)
(* (mnpayments.IsEnoughData()), lockRecv (whether TRY_LOCK(cs_vNodes)       *)
(* succeeds), regtest and fZNode (the process-wide settings).               *)

\* The cooldown test as it would be without the minute, and with two.
CooldownNone(m, t) == m.nTimeLastFailure < t
CooldownTwice(m, t) == m.nTimeLastFailure + 2 * CooldownSeconds < t

\* if (nTimeLastFailure + (1 * 60) < GetTime()), line 299
CooldownOver(m, t) == m.nTimeLastFailure + CooldownSeconds < t

\* if (nTimeLastZnodeList < GetTime() - ZNODE_SYNC_TIMEOUT_SECONDS), lines 375, 409
TimedOut(nTimeLast, t) == nTimeLast < t - ZNODE_SYNC_TIMEOUT_SECONDS

\* The skip as it would be if only the inbound peers of a service node were
\* skipped.
RoleConnectionInbound(pnode, in) == in.fZNode /\ pnode.fInbound

\* if (pnode->fZnode || (fZNode && pnode->fInbound)) continue, line 330
RoleConnection(pnode, in) == pnode.fZnode \/ (in.fZNode /\ pnode.fInbound)

\* The quick mode as it would be with the roster refresh one attempt later.
QuickModeLate(m, pnode) ==
    LET a == m.nRequestedZnodeAttempt
        m1 == IF a <= 3 THEN PushMessage(m, pnode.addr, GETSPORKS)
              ELSE IF a < 5 THEN PushMessage(m, pnode.addr, DSEG)
              ELSE IF a < 6 THEN PushMessage(m, pnode.addr, ZNODEPAYMENTSYNC)
              ELSE Assign(m, ZNODE_SYNC_FINISHED)
    IN  [m1 EXCEPT !.nRequestedZnodeAttempt = @ + 1]

\* QUICK MODE (REGTEST ONLY!), lines 333-348
QuickMode(m, pnode) ==
    LET a == m.nRequestedZnodeAttempt
        m1 == IF a <= 2 THEN PushMessage(m, pnode.addr, GETSPORKS)
              ELSE IF a < 4 THEN PushMessage(m, pnode.addr, DSEG)
              ELSE IF a < 6 THEN PushMessage(m, pnode.addr, ZNODEPAYMENTSYNC)
              ELSE Assign(m, ZNODE_SYNC_FINISHED)
    IN  [m1 EXCEPT !.nRequestedZnodeAttempt = @ + 1]

\* if (nRequestedZnodeAttempt > 1 && mnpayments.IsEnoughData()), line 426
EnoughDataAfterThree(m, in) == m.nRequestedZnodeAttempt > 3 /\ in.fEnoughData

EnoughData(m, in) == m.nRequestedZnodeAttempt > 1 /\ in.fEnoughData

\* The timeout branch as it would be if it never failed the cycle.
TimeoutSwitches(m, t, in) == SwitchToNextAsset(m, t, in.vNodes, in.lockRecv)

\* The timeout branch as it would be if one request were not enough to go on.
TimeoutFailsAtOne(m, t, in) ==
    IF m.nRequestedZnodeAttempt <= 1
    THEN Fail(m, t)
    ELSE SwitchToNextAsset(m, t, in.vNodes, in.lockRecv)

\* The timeout branch of an asset, lines 375-387 and 409-421
Timeout(m, t, in) ==
    IF m.nRequestedZnodeAttempt = 0
    THEN Fail(m, t)
    ELSE SwitchToNextAsset(m, t, in.vNodes, in.lockRecv)

\* What the loop body does for one peer in normal network mode, lines 351-510:
\* the object after it, and whether the body returned from the tick.
NormalMode(m, pnode, t, in) ==
    LET next(x) == [m |-> x, return |-> FALSE]
        return(x) == [m |-> x, return |-> TRUE]
        a == m.nRequestedZnodeAssets
    IN  IF HasFulfilledRequest(m, pnode.addr, "full-sync")
        THEN next([m EXCEPT !.eff.fDisconnect = @ \cup {pnode.addr}])
        ELSE IF ~HasFulfilledRequest(m, pnode.addr, "spork-sync")
        THEN next(PushMessage(AddFulfilledRequest(m, pnode.addr, "spork-sync"),
                              pnode.addr, GETSPORKS))
        ELSE IF a = ZNODE_SYNC_LIST
        THEN IF TimedOut(m.nTimeLastZnodeList, t)
             THEN return(Timeout(m, t, in))
             ELSE IF HasFulfilledRequest(m, pnode.addr, "znode-list-sync")
             THEN next(m)
             ELSE LET m1 == AddFulfilledRequest(m, pnode.addr, "znode-list-sync")
                  IN  IF pnode.nVersion < GetMinZnodePaymentsProto
                      THEN next(m1)
                      ELSE return(PushMessage(
                               [m1 EXCEPT !.nRequestedZnodeAttempt = @ + 1],
                               pnode.addr, DSEG))
        ELSE IF a = ZNODE_SYNC_MNW
        THEN IF TimedOut(m.nTimeLastPaymentVote, t)
             THEN return(Timeout(m, t, in))
             ELSE IF EnoughData(m, in)
             THEN return(SwitchToNextAsset(m, t, in.vNodes, in.lockRecv))
             ELSE IF HasFulfilledRequest(m, pnode.addr, "znode-payment-sync")
             THEN next(m)
             ELSE LET m1 == AddFulfilledRequest(m, pnode.addr, "znode-payment-sync")
                  IN  IF pnode.nVersion < GetMinZnodePaymentsProto
                      THEN next(m1)
                      ELSE return(PushMessage(PushMessage(
                               [m1 EXCEPT !.nRequestedZnodeAttempt = @ + 1],
                               pnode.addr, ZNODEPAYMENTSYNC), pnode.addr, LOWDATA))
        ELSE next(m)

\* The loop as it would be if a return in its body were a continue, and if
\* the body returned after the first peer it does not skip.
RECURSIVE PeerLoopOn(_, _, _, _)
PeerLoopOn(m, i, t, in) ==
    IF i > Len(in.vNodes) THEN m
    ELSE LET pnode == in.vNodes[i]
         IN  IF RoleConnection(pnode, in) THEN PeerLoopOn(m, i + 1, t, in)
             ELSE IF in.regtest THEN QuickMode(m, pnode)
             ELSE PeerLoopOn(NormalMode(m, pnode, t, in).m, i + 1, t, in)

RECURSIVE PeerLoopFirst(_, _, _, _)
PeerLoopFirst(m, i, t, in) ==
    IF i > Len(in.vNodes) THEN m
    ELSE LET pnode == in.vNodes[i]
         IN  IF RoleConnection(pnode, in) THEN PeerLoopFirst(m, i + 1, t, in)
             ELSE IF in.regtest THEN QuickMode(m, pnode)
             ELSE NormalMode(m, pnode, t, in).m

\* BOOST_FOREACH(CNode * pnode, vNodesCopy), lines 324-511, from peer i on
RECURSIVE PeerLoop(_, _, _, _)
PeerLoop(m, i, t, in) ==
    IF i > Len(in.vNodes) THEN m
    ELSE LET pnode == in.vNodes[i]
         IN  IF RoleConnection(pnode, in) THEN PeerLoop(m, i + 1, t, in)
             ELSE IF in.regtest THEN QuickMode(m, pnode)
             ELSE LET r == NormalMode(m, pnode, t, in)
                  IN  IF r.return THEN r.m ELSE PeerLoop(r.m, i + 1, t, in)

\* The block as it would be if the tick did not return when it finds the sync
\* finished and the roster filled.
ResetGuardGoesOn(m, t, in) ==
    LET m1 == IF IsSynced(m) /\ in.nMnCount = 0
              THEN [Reset(m, t) EXCEPT !.eff.restart = TRUE]
              ELSE m
    IN  IF IsFailed(m1)
        THEN [m |-> IF CooldownOver(m1, t) THEN Reset(m1, t) ELSE m1,
              return |-> TRUE]
        ELSE [m |-> m1, return |-> FALSE]

\* The block as it would be if the tick returned after restarting the sync.
ResetGuardReturns(m, t, in) ==
    IF IsSynced(m)
    THEN [m |-> IF in.nMnCount = 0
                THEN [Reset(m, t) EXCEPT !.eff.restart = TRUE] ELSE m,
          return |-> TRUE]
    ELSE IF IsFailed(m)
    THEN [m |-> IF CooldownOver(m, t) THEN Reset(m, t) ELSE m, return |-> TRUE]
    ELSE [m |-> m, return |-> FALSE]

\* RESET SYNCING INCASE OF FAILURE, lines 280-304: the object after the
\* block, and whether the tick returned in it.
ResetGuard(m, t, in) ==
    LET m1 == IF IsSynced(m) /\ in.nMnCount = 0
              THEN [Reset(m, t) EXCEPT !.eff.restart = TRUE]
              ELSE m
    IN  IF IsSynced(m) /\ in.nMnCount # 0
        THEN [m |-> m, return |-> TRUE]
        ELSE IF IsFailed(m1)
        THEN [m |-> IF CooldownOver(m1, t) THEN Reset(m1, t) ELSE m1,
              return |-> TRUE]
        ELSE [m |-> m1, return |-> FALSE]

\* The condition as it would be if the tick refreshed the timestamps and went
\* on to the peers.
ChainGateGoesOn(m, t, in) ==
    IF in.regtest THEN [m |-> m, return |-> FALSE]
    ELSE LET g == IsBlockchainSynced(m, FALSE, t, in.env, in.vNodes)
         IN  IF ~GateRet(g) /\ g.nRequestedZnodeAssets > ZNODE_SYNC_SPORKS
             THEN [m |-> [g EXCEPT !.nTimeLastZnodeList = t,
                                   !.nTimeLastPaymentVote = t,
                                   !.nTimeLastGovernanceItem = t],
                   return |-> FALSE]
             ELSE [m |-> g, return |-> FALSE]

\* lines 312-317: the object after the condition was evaluated, and whether
\* the tick refreshes the timestamps and returns.
ChainGate(m, t, in) ==
    IF in.regtest THEN [m |-> m, return |-> FALSE]
    ELSE LET g == IsBlockchainSynced(m, FALSE, t, in.env, in.vNodes)
         IN  IF ~GateRet(g) /\ g.nRequestedZnodeAssets > ZNODE_SYNC_SPORKS
             THEN [m |-> [g EXCEPT !.nTimeLastZnodeList = t,
                                   !.nTimeLastPaymentVote = t,
                                   !.nTimeLastGovernanceItem = t],
                   return |-> TRUE]
             ELSE [m |-> g, return |-> FALSE]

\* The bootstrap as it would be if it tested the two phases one after the
\* other, so that a tick could leave Initial and Sporks at once.
BootstrapThrough(m, t, in) ==
    LET m1 == IF m.nRequestedZnodeAssets = ZNODE_SYNC_INITIAL
              THEN SwitchToNextAsset(m, t, in.vNodes, in.lockRecv)
              ELSE m
    IN  IF m1.nRequestedZnodeAssets = ZNODE_SYNC_SPORKS
        THEN LET g == IsBlockchainSynced(m1, FALSE, t, in.env, in.vNodes)
             IN  IF GateRet(g)
                 THEN SwitchToNextAsset(g, t, in.vNodes, in.lockRecv)
                 ELSE g
        ELSE m1

\* lines 318-320
Bootstrap(m, t, in) ==
    IF m.nRequestedZnodeAssets = ZNODE_SYNC_INITIAL
    THEN SwitchToNextAsset(m, t, in.vNodes, in.lockRecv)
    ELSE IF m.nRequestedZnodeAssets = ZNODE_SYNC_SPORKS
    THEN LET g == IsBlockchainSynced(m, FALSE, t, in.env, in.vNodes)
         IN  IF GateRet(g)
             THEN SwitchToNextAsset(g, t, in.vNodes, in.lockRecv)
             ELSE g
    ELSE m

\* lines 280-320, what a working tick does before it takes the peer
\* snapshot: the object after it, and whether the tick returned in it.
BeforeLoop(m, t, in) ==
    LET r == ResetGuard([m EXCEPT !.eff.working = TRUE], t, in)
    IN  IF r.return THEN r
        ELSE LET c == ChainGate(r.m, t, in)
             IN  IF c.return THEN c
                 ELSE [m |-> Bootstrap(c.m, t, in), return |-> FALSE]

ProcessTickBody(m, t, in) ==
    IF in.nTick % ZNODE_SYNC_TICK_SECONDS # 0 THEN m
    ELSE IF m.pCurrentBlockIndex = NULL THEN m
    ELSE LET b == BeforeLoop(m, t, in)
         IN  IF b.return THEN b.m ELSE PeerLoop(b.m, 1, t, in)

----------------------------------------------------------------------------
(* The state machine.                                                       *)

\* CZnodeSync() { Reset(); } and the zero-initialised statics.
Init ==
    /\ network \in {MAIN, REGTEST}
    /\ nRequestedZnodeAssets = ZNODE_SYNC_INITIAL
    /\ nRequestedZnodeAttempt = 0
    /\ nTimeAssetSyncStarted = now
    /\ nTimeLastZnodeList = now
    /\ nTimeLastPaymentVote = now
    /\ nTimeLastGovernanceItem = now
    /\ nTimeLastFailure = 0
    /\ nCountFailures = 0
    /\ pCurrentBlockIndex = NULL
    /\ fBlockchainSynced = FALSE
    /\ nTimeLastProcess = Unset
    /\ fFirstBlockAccepted = FALSE
    /\ nTick = 0
    /\ netfulfilledman = {}
    /\ call = "init"
    /\ out = NoEffects

\* The handler leaves the object as m.
Becomes(m) ==
    /\ nRequestedZnodeAssets' = m.nRequestedZnodeAssets
    /\ nRequestedZnodeAttempt' = m.nRequestedZnodeAttempt
    /\ nTimeAssetSyncStarted' = m.nTimeAssetSyncStarted
    /\ nTimeLastZnodeList' = m.nTimeLastZnodeList
    /\ nTimeLastPaymentVote' = m.nTimeLastPaymentVote
    /\ nTimeLastGovernanceItem' = m.nTimeLastGovernanceItem
    /\ nTimeLastFailure' = m.nTimeLastFailure
    /\ nCountFailures' = m.nCountFailures
    /\ pCurrentBlockIndex' = m.pCurrentBlockIndex
    /\ fBlockchainSynced' = m.fBlockchainSynced
    /\ nTimeLastProcess' = m.nTimeLastProcess
    /\ fFirstBlockAccepted' = m.fFirstBlockAccepted
    /\ netfulfilledman' = m.netfulfilledman
    /\ out' = m.eff

\* What a tick in the current state reads from its collaborators.  It reads
\* nothing before its ZNODE_SYNC_TICK_SECONDS-th call and without a tip, the
\* service-node count only once synced, and neither the chain nor the peers
\* where it returns before line 312 or, on regtest, line 318 skips the call.
Working == nTick % ZNODE_SYNC_TICK_SECONDS = 0 /\ pCurrentBlockIndex # NULL

Proceeds(nMnCount) == Working /\ ~IsFailed(Cur) /\ (IsSynced(Cur) => nMnCount = 0)

TickInputs ==
    {in \in [regtest : {network = REGTEST},
             fZNode : BOOLEAN,
             nTick : {nTick},
             nMnCount : IF Working /\ IsSynced(Cur) THEN {0, 2} ELSE {2},
             env : IF Working /\ ~IsFailed(Cur) THEN ChainEnvs ELSE {Importing},
             vNodes : IF Working /\ ~IsFailed(Cur) THEN Snapshots ELSE {<<>>},
             fEnoughData : IF Working /\ nRequestedZnodeAssets = ZNODE_SYNC_MNW
                           THEN BOOLEAN ELSE {FALSE},
             lockRecv : IF Working /\ ~IsFailed(Cur) THEN BOOLEAN ELSE {TRUE}] :
        /\ ~Proceeds(in.nMnCount) => in.vNodes = <<>> /\ in.lockRecv
        /\ ~(/\ Proceeds(in.nMnCount)
             /\ ~in.regtest \/ nRequestedZnodeAssets = ZNODE_SYNC_SPORKS)
                => in.env = Importing
        /\ in.fZNode => \E n \in Range(in.vNodes) : n.fInbound
        /\ ~in.lockRecv => \/ nRequestedZnodeAssets \in
                                {ZNODE_SYNC_INITIAL, ZNODE_SYNC_MNW, ZNODE_SYNC_FINISHED}
                           \/ nTimeLastProcess # Unset /\ TimeCheck(Cur, now)}

ProcessTick ==
    \E in \in TickInputs :
        /\ Becomes(ProcessTickBody(Cur, now, in))
        /\ nTick' = (nTick + 1) % ZNODE_SYNC_TICK_SECONDS
        /\ call' = "ProcessTick"
        /\ UNCHANGED network

\* The calls between two ticks.  A ProcessTick call that is not the
\* ZNODE_SYNC_TICK_SECONDS-th changes nTick alone and so commutes with every
\* other action: the model takes those calls back to back.
BetweenTicks == nTick = 2

\* IsBlockchainSynced called from outside the tick (block validation, RPC).
GateSnapshots ==
    {s \in Snapshots : \A i \in 1..Len(s) : s[i].addr = i /\ ~s[i].fZnode /\ ~s[i].fInbound}

\* It returns before it reads the peers without a tip and while the chain is
\* imported or behind the checkpoint.
GateInputs ==
    {in \in [fBlockAccepted : BOOLEAN, env : ChainEnvs, vNodes : GateSnapshots] :
        pCurrentBlockIndex = NULL \/ in.env.fImporting \/ BehindCheckpoint(Cur, in.env)
            => in.vNodes = <<>>}

CallIsBlockchainSynced ==
    \E in \in GateInputs :
        /\ BetweenTicks
        /\ Becomes(IsBlockchainSynced(Cur, in.fBlockAccepted, now, in.env, in.vNodes))
        /\ call' = "IsBlockchainSynced"
        /\ UNCHANGED <<network, nTick>>

\* CZnodeSync::UpdatedBlockTip, lines 528-530
UpdatedBlockTip ==
    \E h \in TipHeights :
        /\ BetweenTicks
        /\ pCurrentBlockIndex' = Ptr([nHeight |-> h])
        /\ UNCHANGED <<call, out, network, nRequestedZnodeAssets, nRequestedZnodeAttempt,
                       nTimeAssetSyncStarted, nTimeLastZnodeList, nTimeLastPaymentVote,
                       nTimeLastGovernanceItem, nTimeLastFailure, nCountFailures,
                       fBlockchainSynced, nTimeLastProcess, fFirstBlockAccepted,
                       nTick, netfulfilledman>>

\* CZnodeSync::ProcessMessage, lines 243-255: SYNCSTATUSCOUNT is logged only.
ProcessMessage ==
    /\ BetweenTicks
    /\ UNCHANGED <<call, out, network, nRequestedZnodeAssets, nRequestedZnodeAttempt,
                   nTimeAssetSyncStarted, nTimeLastZnodeList, nTimeLastPaymentVote,
                   nTimeLastGovernanceItem, nTimeLastFailure, nCountFailures,
                   pCurrentBlockIndex, fBlockchainSynced, nTimeLastProcess,
                   fFirstBlockAccepted, nTick, netfulfilledman>>

\* The clock.  Seconds pass a timeout period at a time while the node is
\* awake; a sleep lasts the idle threshold.
Delta == ZNODE_SYNC_TIMEOUT_SECONDS

\* A timestamp after d seconds have passed; it stops ageing at `oldest`, one
\* step past the threshold the code compares it with.
Aged(nTime, d, oldest) == Max(nTime - d, now - oldest)

Passes(d) ==
    /\ BetweenTicks
    /\ nTimeAssetSyncStarted' = Aged(nTimeAssetSyncStarted, d, Delta)
    /\ nTimeLastGovernanceItem' = Aged(nTimeLastGovernanceItem, d, Delta)
    /\ nTimeLastZnodeList' =
          Aged(nTimeLastZnodeList, d, ZNODE_SYNC_TIMEOUT_SECONDS + Delta)
    /\ nTimeLastPaymentVote' =
          Aged(nTimeLastPaymentVote, d, ZNODE_SYNC_TIMEOUT_SECONDS + Delta)
    /\ nTimeLastFailure' =
          IF nTimeLastFailure = 0 THEN 0
          ELSE Aged(nTimeLastFailure, d, CooldownSeconds + Delta)
    /\ nTimeLastProcess' =
          IF nTimeLastProcess = Unset THEN Unset
          ELSE Aged(nTimeLastProcess, d, IdleSeconds + Delta)
    /\ UNCHANGED <<call, out, network, nRequestedZnodeAssets, nRequestedZnodeAttempt,
                   nCountFailures, pCurrentBlockIndex, fBlockchainSynced,
                   fFirstBlockAccepted, nTick, netfulfilledman>>

\* While the node is awake IsBlockchainSynced is evaluated at least every
\* MaxAwake seconds.
AdvanceTime ==
    /\ \/ nTimeLastProcess = Unset
       \/ now - nTimeLastProcess + Delta <= MaxAwake
       \/ now - nTimeLastProcess >= IdleSeconds
    /\ Passes(Delta)

Sleep == Passes(IdleSeconds)

Next ==
    \/ ProcessTick
    \/ CallIsBlockchainSynced
    \/ UpdatedBlockTip
    \/ ProcessMessage
    \/ AdvanceTime
    \/ Sleep

Spec == Init /\ [][Next]_vars

----------------------------------------------------------------------------
(* SwitchToNextAsset is a public member.  SpecSwitch is the state machine   *)
(* with a caller that breaks its contract and calls it while the sync has   *)
(* failed; the switch reads neither the peers nor the lock on that path.    *)

CallSwitchToNextAsset ==
    \E vNodes \in {<<>>}, lockRecv \in {TRUE} :
        /\ BetweenTicks
        /\ IsFailed(Cur)
        /\ Becomes(SwitchToNextAsset(Cur, now, vNodes, lockRecv))
        /\ call' = "SwitchToNextAsset"
        /\ UNCHANGED <<network, nTick>>

NextSwitch == Next \/ CallSwitchToNextAsset

SpecSwitch == Init /\ [][NextSwitch]_vars

\* A node on the main network that stays awake, under its scheduling:
\* ThreadCheckDarkSendPool calls ProcessTick once a second for as long as the
\* node runs, and the clock goes on.
InitRun == Init /\ network = MAIN

NextRun ==
    \/ ProcessTick
    \/ CallIsBlockchainSynced
    \/ UpdatedBlockTip
    \/ AdvanceTime

SpecRun == InitRun /\ [][NextRun]_vars /\ WF_vars(ProcessTick) /\ WF_vars(AdvanceTime)

----------------------------------------------------------------------------
(* CheckNodeHeight on its own: a tip, a peer and a value of                 *)
(* fDisconnectStuckNodes are drawn, and the function is called once.  `out` *)
(* holds the peer and, after the call, the result.                          *)

Heights == 0..MaxHeight
\* What a peer reports: -1 for a height it has not told, and up to three
\* blocks beyond the highest tip for the headers it announces.
PeerHeights == -1..MaxHeight + 3

InitHeight ==
    /\ network = MAIN
    /\ nRequestedZnodeAssets = ZNODE_SYNC_INITIAL
    /\ nRequestedZnodeAttempt = 0
    /\ nTimeAssetSyncStarted = now
    /\ nTimeLastZnodeList = now
    /\ nTimeLastPaymentVote = now
    /\ nTimeLastGovernanceItem = now
    /\ nTimeLastFailure = 0
    /\ nCountFailures = 0
    /\ pCurrentBlockIndex \in {Ptr([nHeight |-> h]) : h \in Heights}
    /\ fBlockchainSynced = FALSE
    /\ nTimeLastProcess = Unset
    /\ fFirstBlockAccepted = FALSE
    /\ nTick = 0
    /\ netfulfilledman = {}
    /\ call = "init"
    /\ out \in [stats : {Stats(ok, common, sync) :
                            ok \in BOOLEAN, common \in PeerHeights, sync \in PeerHeights},
                fDisconnect : BOOLEAN,
                fDisconnectStuckNodes : BOOLEAN,
                ret : {<<>>}]

CallCheckNodeHeight ==
    /\ call = "init"
    /\ LET r == CheckNodeHeight(Deref(pCurrentBlockIndex).nHeight, out.stats,
                                out.fDisconnectStuckNodes)
       IN  out' = [out EXCEPT !.ret = <<r.ret>>,
                              !.fDisconnect = @ \/ r.fDisconnect]
    /\ call' = "CheckNodeHeight"
    /\ UNCHANGED <<network, nRequestedZnodeAssets, nRequestedZnodeAttempt,
                   nTimeAssetSyncStarted, nTimeLastZnodeList, nTimeLastPaymentVote,
                   nTimeLastGovernanceItem, nTimeLastFailure, nCountFailures,
                   pCurrentBlockIndex, fBlockchainSynced, nTimeLastProcess,
                   fFirstBlockAccepted, nTick, netfulfilledman>>

NextHeight == CallCheckNodeHeight

SpecHeight == InitHeight /\ [][NextHeight]_vars

----------------------------------------------------------------------------
(* Properties of the tick.  A step is a call of ProcessTick exactly when it *)
(* changes nTick; the call is a working one when it passes the two early    *)
(* returns of lines 272-273.                                                *)

Tick == nTick' # nTick
WorkingTick == Tick /\ Working

\* The order of the phases: Initial, Sporks, Roster, PaymentVotes, and last
\* Finished and Failed.
Rank(a) ==
    CASE a = ZNODE_SYNC_INITIAL -> 0
      [] a = ZNODE_SYNC_SPORKS -> 1
      [] a = ZNODE_SYNC_LIST -> 2
      [] a = ZNODE_SYNC_MNW -> 3
      [] OTHER -> 4

Forward == \/ nRequestedZnodeAssets' = nRequestedZnodeAssets
           \/ Rank(nRequestedZnodeAssets') > Rank(nRequestedZnodeAssets)

\* C1 as stated: after every tick the phase is unchanged or strictly later,
\* except that a tick may replace Failed by Initial and Finished by Initial.
C1_ForwardOnlyAsStated ==
    [][Tick => \/ Forward
               \/ /\ nRequestedZnodeAssets \in {ZNODE_SYNC_FAILED, ZNODE_SYNC_FINISHED}
                  /\ nRequestedZnodeAssets' = ZNODE_SYNC_INITIAL]_vars

\* C1: after every tick the phase is unchanged or strictly later, except that
\* a tick may replace Failed by Initial, that a tick which finds Finished with
\* an empty roster resets and bootstraps at once and so ends in Sporks, and
\* that a tick in which the sync gate performs its idle reset ends in Initial
\* or Sporks whatever the phase was.
C1_ForwardOnly ==
    [][Tick => \/ Forward
               \/ /\ nRequestedZnodeAssets = ZNODE_SYNC_FAILED
                  /\ nRequestedZnodeAssets' = ZNODE_SYNC_INITIAL
               \/ /\ nRequestedZnodeAssets = ZNODE_SYNC_FINISHED
                  /\ nRequestedZnodeAssets' = ZNODE_SYNC_SPORKS
               \/ /\ out'.timeCheck
                  /\ nRequestedZnodeAssets' \in {ZNODE_SYNC_INITIAL, ZNODE_SYNC_SPORKS}]_vars

\* A tick has just moved PaymentVotes on to Finished.
C1_Witness ==
    /\ nTick = 1 /\ out.working /\ out.ManageState = 1
    /\ nRequestedZnodeAssets = ZNODE_SYNC_FINISHED

\* C2: while the phase is Failed, a tick at a time t < lastFailureAt + 60
\* leaves the phase Failed, leaves lastFailureAt and the attempt count as they
\* were and sends no request.
C2_CooldownHold ==
    [][/\ Tick
       /\ nRequestedZnodeAssets = ZNODE_SYNC_FAILED
       /\ now < nTimeLastFailure + 60
       => /\ nRequestedZnodeAssets' = ZNODE_SYNC_FAILED
          /\ nTimeLastFailure' = nTimeLastFailure
          /\ nRequestedZnodeAttempt' = nRequestedZnodeAttempt
          /\ out'.sent = {}]_vars

\* A working tick has just run in Failed, 30 seconds after the failure.
C2_Witness ==
    /\ nTick = 1 /\ out.working
    /\ nRequestedZnodeAssets = ZNODE_SYNC_FAILED
    /\ nTimeLastFailure < now /\ now < nTimeLastFailure + 60

\* The full reset of Reset(), seen across a step.
FullReset ==
    /\ nRequestedZnodeAssets' = ZNODE_SYNC_INITIAL
    /\ nRequestedZnodeAttempt' = 0
    /\ nTimeAssetSyncStarted' = now
    /\ nTimeLastZnodeList' = now
    /\ nTimeLastPaymentVote' = now
    /\ nTimeLastGovernanceItem' = now
    /\ nTimeLastFailure' = 0
    /\ nCountFailures' = 0

\* C3 as stated: while the phase is Failed, a working tick at a time
\* t >= lastFailureAt + 60 performs the full reset and ends in Initial.
C3_CooldownReleaseAsStated ==
    [][/\ WorkingTick
       /\ nRequestedZnodeAssets = ZNODE_SYNC_FAILED
       /\ now >= nTimeLastFailure + 60
       => FullReset]_vars

\* C3: while the phase is Failed, a working tick at a time
\* t > lastFailureAt + 60 performs the full reset and ends in Initial; at
\* t = lastFailureAt + 60 the phase is still Failed after the tick.
C3_CooldownRelease ==
    [][/\ WorkingTick
       /\ nRequestedZnodeAssets = ZNODE_SYNC_FAILED
       => /\ now > nTimeLastFailure + 60 => FullReset
          /\ now = nTimeLastFailure + 60 => UNCHANGED nRequestedZnodeAssets]_vars

\* A working tick has just left Failed for Initial.
C3_Witness ==
    /\ nTick = 1 /\ out.working /\ out.gate = <<>>
    /\ nRequestedZnodeAssets = ZNODE_SYNC_INITIAL
    /\ nTimeLastFailure = 0

----------------------------------------------------------------------------
(* Properties of the per-peer pass, in normal network mode.                 *)

Normal == network = MAIN

\* The peers a tick sent a phase-specific request to.
Asked(sent) == {r[1] : r \in {x \in sent : x[2] # GETSPORKS}}

\* C7: in normal network mode a tick sends a phase-specific request (the
\* roster refresh, or the payment-vote sync with the missing-block request)
\* to at most one peer, and raises the attempt count by at most 1.
C7_OneRequestPerTick ==
    [][Tick /\ Normal
        => /\ Cardinality(Asked(out'.sent)) <= 1
           /\ nRequestedZnodeAttempt' <= nRequestedZnodeAttempt + 1]_vars

\* A tick has just asked one peer for sporks and another for payment votes
\* and missing blocks.
C7_Witness ==
    /\ nTick = 1 /\ Normal
    /\ \E a, b \in Addrs :
          /\ a # b
          /\ <<a, GETSPORKS>> \in out.sent
          /\ {<<b, ZNODEPAYMENTSYNC>>, <<b, LOWDATA>>} \subseteq out.sent

\* Not a role connection, and no full-sync record.
Eligible(m, pnode, in) ==
    /\ ~(pnode.fZnode \/ (in.fZNode /\ pnode.fInbound))
    /\ <<pnode.addr, "full-sync">> \notin m.netfulfilledman

Marked(m, pnode) == <<pnode.addr, "spork-sync">> \in m.netfulfilledman

\* The tick that leaves the object as p has asked pnode for sporks and
\* marked it.
GetsSporks(p, pnode) == <<pnode.addr, GETSPORKS>> \in p.eff.sent /\ Marked(p, pnode)

\* C8 as stated: in normal network mode a tick that reaches the per-peer pass
\* sends GETSPORKS to, and marks, every eligible peer of the snapshot that is
\* not yet marked, whatever the phase and the order of the peers.
C8_SporkFanOutAsStated ==
    Working /\ Normal =>
        \A in \in TickInputs :
            LET b == BeforeLoop(Cur, now, in)
                p == ProcessTickBody(Cur, now, in)
            IN  ~b.return =>
                    \A i \in 1..Len(in.vNodes) :
                        Eligible(b.m, in.vNodes[i], in) /\ ~Marked(b.m, in.vNodes[i])
                            => GetsSporks(p, in.vNodes[i])

\* C8: in normal network mode a tick that reaches the per-peer pass sends
\* GETSPORKS to, and marks, every eligible peer of the snapshot that is not
\* yet marked and that no eligible, already marked peer precedes in the
\* snapshot; in the phases without a request of their own (Sporks) that is
\* every eligible peer not yet marked.
C8_SporkFanOut ==
    Working /\ Normal =>
        \A in \in TickInputs :
            LET b == BeforeLoop(Cur, now, in)
                p == ProcessTickBody(Cur, now, in)
            IN  ~b.return =>
                    \A i \in 1..Len(in.vNodes) :
                        /\ Eligible(b.m, in.vNodes[i], in)
                        /\ ~Marked(b.m, in.vNodes[i])
                        /\ \/ b.m.nRequestedZnodeAssets
                                 \notin {ZNODE_SYNC_LIST, ZNODE_SYNC_MNW}
                           \/ \A j \in 1..(i - 1) :
                                 ~(/\ Eligible(b.m, in.vNodes[j], in)
                                   /\ Marked(b.m, in.vNodes[j]))
                        => GetsSporks(p, in.vNodes[i])

\* A tick has just asked one peer for sporks and a later one for the roster.
C8_Witness ==
    /\ nTick = 1 /\ Normal
    /\ \E a, b \in Addrs :
          a # b /\ <<a, GETSPORKS>> \in out.sent /\ <<b, DSEG>> \in out.sent

\* The snapshot holds a peer the pass does not skip and does not ask for
\* sporks: an eligible peer that is marked already.
Reaches(m, in) ==
    \E i \in 1..Len(in.vNodes) : Eligible(m, in.vNodes[i], in) /\ Marked(m, in.vNodes[i])

\* The tick's evaluation of the sync gate returned synced, without the idle
\* reset.
GateSynced(m) == m.eff.gate # <<>> /\ m.eff.gate[1] /\ ~m.eff.timeCheck

\* C9 as stated: in normal network mode, in PaymentVotes with an attempt
\* count above 1 and sufficient data in the ledger, a working tick ends in
\* Finished, whatever the peers are.
C9_SufficiencyAsStated ==
    Working /\ Normal /\ nRequestedZnodeAssets = ZNODE_SYNC_MNW
            /\ nRequestedZnodeAttempt > 1 =>
        \A in \in TickInputs :
            in.fEnoughData =>
                ProcessTickBody(Cur, now, in).nRequestedZnodeAssets = ZNODE_SYNC_FINISHED

\* C9: in normal network mode, in PaymentVotes with an attempt count above 1
\* and sufficient data in the ledger, a working tick ends in Finished, timed
\* out or not, provided that its evaluation of the sync gate returns synced
\* without the idle reset and that the snapshot holds an eligible peer already
\* marked spork-sync fulfilled.
C9_Sufficiency ==
    Working /\ Normal /\ nRequestedZnodeAssets = ZNODE_SYNC_MNW
            /\ nRequestedZnodeAttempt > 1 =>
        \A in \in TickInputs :
            LET b == BeforeLoop(Cur, now, in)
            IN  in.fEnoughData /\ GateSynced(b.m) /\ Reaches(b.m, in) =>
                    ProcessTickBody(Cur, now, in).nRequestedZnodeAssets
                        = ZNODE_SYNC_FINISHED

\* A tick has just finished the cycle before the payment-vote timeout.
C9_Witness ==
    /\ nTick = 1 /\ Normal /\ out.working /\ out.ManageState = 1
    /\ nRequestedZnodeAssets = ZNODE_SYNC_FINISHED
    /\ nTimeLastPaymentVote >= now - ZNODE_SYNC_TIMEOUT_SECONDS

\* The phase a timed-out tick ends in, and the failure time if it fails.
Resolved(m, p) ==
    IF m.nRequestedZnodeAttempt = 0
    THEN p.nRequestedZnodeAssets = ZNODE_SYNC_FAILED /\ p.nTimeLastFailure = now
    ELSE p.nRequestedZnodeAssets =
            IF m.nRequestedZnodeAssets = ZNODE_SYNC_LIST
            THEN ZNODE_SYNC_MNW ELSE ZNODE_SYNC_FINISHED

\* The phase is Roster or PaymentVotes and its request time is more than
\* ZNODE_SYNC_TIMEOUT_SECONDS ago.
Overdue ==
    \/ /\ nRequestedZnodeAssets = ZNODE_SYNC_LIST
       /\ now - nTimeLastZnodeList > ZNODE_SYNC_TIMEOUT_SECONDS
    \/ /\ nRequestedZnodeAssets = ZNODE_SYNC_MNW
       /\ now - nTimeLastPaymentVote > ZNODE_SYNC_TIMEOUT_SECONDS

----------------------------------------------------------------------------
(* Properties of the sync gate.                                             *)

nHeight == Deref(pCurrentBlockIndex).nHeight

\* More than 3600 seconds have passed since the time the previous
\* evaluation stored.
Idle == nTimeLastProcess # Unset /\ now - nTimeLastProcess > 3600

Evaluation(in) == IsBlockchainSynced(Cur, in.fBlockAccepted, now, in.env, in.vNodes)

\* C4 as stated: an evaluation more than 3600 seconds after the previous one
\* returns not-synced and leaves the memoized flag false, whatever the state,
\* blockJustAccepted, the peers and the chain index are.
C4_IdleResetAsStated ==
    Idle => \A in \in GateInputs :
                ~GateRet(Evaluation(in)) /\ ~Evaluation(in).fBlockchainSynced

\* The chain index cannot be used, or the tip is behind the checkpoints.
Unusable(in) ==
    \/ pCurrentBlockIndex = NULL \/ in.env.pindexBestHeader = NULL
    \/ in.env.fImporting \/ in.env.fReindex
    \/ BehindCheckpoint(Cur, in.env)

\* C4: an evaluation more than 3600 seconds after the previous one performs
\* the full reset and clears the memoized flag, and then goes on.  It returns
\* what it leaves in the flag.  That is not-synced when blockJustAccepted is
\* true, when the chain index cannot be used and when the tip is behind the
\* checkpoints; otherwise it is synced exactly when enough peers are at the
\* local height, or a first block was accepted and the tip is recent.
C4_IdleReset ==
    Idle => \A in \in GateInputs :
        LET g == Evaluation(in)
        IN  /\ g.eff.timeCheck
            /\ g.nRequestedZnodeAssets = ZNODE_SYNC_INITIAL
            /\ g.nRequestedZnodeAttempt = 0
            /\ g.nTimeLastFailure = 0
            /\ g.fBlockchainSynced = GateRet(g)
            /\ GateRet(g) <=>
                  /\ ~in.fBlockAccepted
                  /\ ~Unusable(in)
                  /\ \/ NodesAtSameHeight(in.vNodes, nHeight) >= ZNODE_SYNC_ENOUGH_PEERS
                     \/ fFirstBlockAccepted /\ TipRecent(Cur, now, in.env)

\* An evaluation has just performed the idle reset and returned synced.
C4_Witness ==
    /\ call = "IsBlockchainSynced"
    /\ out.timeCheck /\ out.gate = <<TRUE>>
    /\ fBlockchainSynced /\ nRequestedZnodeAssets = ZNODE_SYNC_INITIAL

----------------------------------------------------------------------------
(* Properties of CheckNodeHeight, under SpecHeight.                         *)

Called == call' = "CheckNodeHeight"
Returned == call = "CheckNodeHeight"

\* C5 as stated: for a peer with commonHeight = localHeight - 2 the call
\* returns false; the disconnect flag is set when fDisconnectStuckNodes is
\* true and unchanged when it is false; whatever announcedSyncHeight is.
C5_StuckPeerAsStated ==
    [][Called /\ out.stats.ok /\ out.stats.nCommonHeight = nHeight - 2
        => /\ out'.ret = <<FALSE>>
           /\ out'.fDisconnect = IF out.fDisconnectStuckNodes THEN TRUE
                                 ELSE out.fDisconnect]_vars

\* C5: for a peer with commonHeight = localHeight - 2 the call returns
\* false.  When the peer's statistics are available and neither height is
\* the unknown height -1, the disconnect flag is set when
\* fDisconnectStuckNodes is true and unchanged when it is false; otherwise
\* the flag is unchanged either way.
C5_StuckPeer ==
    [][Called /\ out.stats.nCommonHeight = nHeight - 2
        => /\ out'.ret = <<FALSE>>
           /\ out'.fDisconnect =
                IF /\ out.fDisconnectStuckNodes
                   /\ out.stats.ok
                   /\ out.stats.nCommonHeight # -1
                   /\ out.stats.nSyncHeight # -1
                THEN TRUE
                ELSE out.fDisconnect]_vars

\* The call has set the flag of a peer two blocks behind the tip.
C5_Witness ==
    /\ Returned /\ out.fDisconnectStuckNodes /\ out.fDisconnect
    /\ out.stats.nCommonHeight = nHeight - 2 /\ out.ret = <<FALSE>>

\* C6 as stated: for a peer with announcedSyncHeight = localHeight + 3 the
\* call returns false and leaves the disconnect flag as it was, whatever
\* commonHeight and fDisconnectStuckNodes are.
C6_PrecociousPeerAsStated ==
    [][Called /\ out.stats.ok /\ out.stats.nSyncHeight = nHeight + 3
        => /\ out'.ret = <<FALSE>>
           /\ out'.fDisconnect = out.fDisconnect]_vars

\* C6: for a peer with announcedSyncHeight = localHeight + 3 the call
\* returns false; it leaves the disconnect flag as it was unless
\* fDisconnectStuckNodes is true and the peer is also stuck (its statistics
\* available, commonHeight known and below localHeight - 1), and then it
\* sets the flag.
C6_PrecociousPeer ==
    [][Called /\ out.stats.nSyncHeight = nHeight + 3
        => /\ out'.ret = <<FALSE>>
           /\ out'.fDisconnect =
                IF /\ out.fDisconnectStuckNodes
                   /\ out.stats.ok
                   /\ out.stats.nCommonHeight # -1
                   /\ out.stats.nCommonHeight < nHeight - 1
                THEN TRUE
                ELSE out.fDisconnect]_vars

\* The call has turned down a peer that is three blocks ahead and not
\* behind, and has left its flag clear although stuck peers are disconnected.
C6_Witness ==
    /\ Returned /\ out.ret = <<FALSE>>
    /\ out.stats.ok /\ out.stats.nSyncHeight = nHeight + 3
    /\ out.stats.nCommonHeight = nHeight
    /\ out.fDisconnectStuckNodes /\ ~out.fDisconnect

----------------------------------------------------------------------------
(* Properties of the reset guard and of the phase switch.                   *)

\* The object p is as Reset() at the time of the tick leaves it, but for
\* the phase and the attempt count.
Restarted(p) ==
    /\ p.nTimeAssetSyncStarted = now
    /\ p.nTimeLastZnodeList = now
    /\ p.nTimeLastPaymentVote = now
    /\ p.nTimeLastGovernanceItem = now
    /\ p.nTimeLastFailure = 0
    /\ p.nCountFailures = 0

\* C11 as stated: a working tick in Finished that reads a roster count of 0
\* performs the full reset and returns: after it the phase is Initial, the
\* attempt count 0, lastFailureAt and the failure count 0, every phase
\* timestamp the time of the tick, and no request has been sent.
C11_ResyncAsStated ==
    Working /\ nRequestedZnodeAssets = ZNODE_SYNC_FINISHED =>
        \A in \in TickInputs :
            in.nMnCount = 0 =>
                LET p == ProcessTickBody(Cur, now, in)
                IN  /\ Restarted(p)
                    /\ p.nRequestedZnodeAssets = ZNODE_SYNC_INITIAL
                    /\ p.nRequestedZnodeAttempt = 0
                    /\ p.eff.sent = {}

\* C11: a working tick in Finished that reads a roster count of 0 performs
\* the full reset and goes on with the tick, which bootstraps at once: after
\* it the phase is Sporks, lastFailureAt and the failure count are 0, every
\* phase timestamp is the time of the tick, and the only requests sent are
\* feature-flag requests; the attempt count is 0 in normal network mode, and
\* in fast test mode it is 1 when the snapshot holds a peer that is not a role
\* connection and 0 otherwise.
C11_Resync ==
    Working /\ nRequestedZnodeAssets = ZNODE_SYNC_FINISHED =>
        \A in \in TickInputs :
            in.nMnCount = 0 =>
                LET p == ProcessTickBody(Cur, now, in)
                IN  /\ Restarted(p)
                    /\ p.eff.restart
                    /\ p.nRequestedZnodeAssets = ZNODE_SYNC_SPORKS
                    /\ p.nRequestedZnodeAttempt =
                          IF in.regtest /\ \E i \in 1..Len(in.vNodes) :
                                              ~RoleConnection(in.vNodes[i], in)
                          THEN 1 ELSE 0
                    /\ \A r \in p.eff.sent : r[2] = GETSPORKS

\* A tick has just restarted the sync from Finished and asked a peer for
\* sporks.
C11_Witness ==
    /\ nTick = 1 /\ out.working /\ out.restart
    /\ nRequestedZnodeAssets = ZNODE_SYNC_SPORKS
    /\ out.sent # {}

\* The attempt count and the start time of the asset as a phase switch
\* should leave them.
Zeroed(p) == p.nRequestedZnodeAttempt = 0 /\ p.nTimeAssetSyncStarted = now

\* The phases SwitchToNextAsset leaves for Sporks, Roster, PaymentVotes and
\* Finished.
Switchable ==
    {ZNODE_SYNC_INITIAL, ZNODE_SYNC_SPORKS, ZNODE_SYNC_LIST, ZNODE_SYNC_MNW}

\* C12 as stated: whenever an operation changes the phase to Sporks, Roster,
\* PaymentVotes or Finished, the attempt count is 0 and the start time of the
\* asset is the current time right after it: so for SwitchToNextAsset in
\* every phase it can leave, whether TRY_LOCK(cs_vNodes) succeeds or not, and
\* for the fast test path's change to Finished.
C12_AttemptResetAsStated ==
    /\ nRequestedZnodeAssets \in Switchable =>
          \A vNodes \in Snapshots, lockRecv \in BOOLEAN :
              Zeroed(SwitchToNextAsset(Cur, now, vNodes, lockRecv))
    /\ network = REGTEST =>
          \A pnode \in Nodes :
              LET q == QuickMode(Cur, pnode)
              IN  q.nRequestedZnodeAssets # nRequestedZnodeAssets => Zeroed(q)

\* The same without the two paths on which the code leaves the attempt count:
\* SwitchToNextAsset zeroes the attempt count and stamps the start time in
\* every phase it can leave, but from PaymentVotes only when TRY_LOCK
\* succeeds.
C12_AttemptResetElsewhere ==
    nRequestedZnodeAssets \in Switchable =>
        \A vNodes \in Snapshots, lockRecv \in BOOLEAN :
            (nRequestedZnodeAssets = ZNODE_SYNC_MNW => lockRecv)
                => Zeroed(SwitchToNextAsset(Cur, now, vNodes, lockRecv))

\* A tick has just finished the cycle while the peer list was locked, and has
\* left the attempt count.
C12_Witness ==
    /\ nTick = 1 /\ out.working /\ out.TryLock = "busy"
    /\ nRequestedZnodeAssets = ZNODE_SYNC_FINISHED
    /\ nRequestedZnodeAttempt > 0

\* C13 as stated: across one call of ProcessTick the phase changes its value
\* at most once.
C13_OneTransitionAsStated == [][Tick => out'.moves <= 1]_vars

\* C13: across one call of ProcessTick the phase changes its value at most
\* once, except in a tick that performs a full reset before its bootstrap
\* (the restart from Finished with an empty roster, or the idle reset of the
\* sync gate): there the change to Initial can be followed by the bootstrap's
\* change to Sporks, two changes in all.
C13_OneTransition ==
    [][Tick => /\ out'.moves <= 2
               /\ out'.moves = 2 =>
                     /\ out'.restart \/ out'.timeCheck
                     /\ nRequestedZnodeAssets' = ZNODE_SYNC_SPORKS]_vars

\* A tick has just reset the sync in its gate call and bootstrapped it.
C13_Witness ==
    /\ nTick = 1 /\ out.working /\ out.timeCheck /\ out.moves = 2
    /\ nRequestedZnodeAssets = ZNODE_SYNC_SPORKS

\* The full-sync records of a ledger.
FullSync(ledger) == {r \in ledger : r[2] = "full-sync"}

\* The full-sync records of the peers connected.
OfPeers(vNodes) == {<<n.addr, "full-sync">> : n \in Range(vNodes)}

\* C14 as stated: every tick that changes the phase to Finished calls
\* activeZnode.ManageState() exactly once and marks full-sync fulfilled for
\* every peer connected.
C14_FinalizationAsStated ==
    Working /\ nRequestedZnodeAssets # ZNODE_SYNC_FINISHED =>
        \A in \in TickInputs :
            LET p == ProcessTickBody(Cur, now, in)
            IN  p.nRequestedZnodeAssets = ZNODE_SYNC_FINISHED =>
                    /\ p.eff.ManageState = 1
                    /\ OfPeers(in.vNodes) \subseteq p.netfulfilledman

\* C14: a tick that changes the phase to Finished in normal network mode (by
\* timeout with attempts or by the sufficiency shortcut) calls
\* activeZnode.ManageState() exactly once; it marks full-sync fulfilled for
\* every peer connected when TRY_LOCK(cs_vNodes) succeeds, and marks no peer
\* when it fails.  The fast test path at attempt 6 or more sets Finished
\* without the call and without a mark.
C14_Finalization ==
    Working /\ nRequestedZnodeAssets # ZNODE_SYNC_FINISHED =>
        \A in \in TickInputs :
            LET p == ProcessTickBody(Cur, now, in)
            IN  p.nRequestedZnodeAssets = ZNODE_SYNC_FINISHED =>
                    /\ p.eff.ManageState = IF in.regtest THEN 0 ELSE 1
                    /\ FullSync(p.netfulfilledman) =
                          FullSync(netfulfilledman) \cup
                              IF ~in.regtest /\ in.lockRecv
                              THEN OfPeers(in.vNodes) ELSE {}

\* A tick has just finished the cycle and marked the peers connected.
C14_Witness ==
    /\ nTick = 1 /\ out.working /\ out.ManageState = 1 /\ out.TryLock = "held"
    /\ nRequestedZnodeAssets = ZNODE_SYNC_FINISHED
    /\ \E a, b \in Addrs : a # b /\ {<<a, "full-sync">>, <<b, "full-sync">>}
                                      \subseteq netfulfilledman

\* A call of SwitchToNextAsset from outside the tick.
Switched == call' = "SwitchToNextAsset" /\ call # "SwitchToNextAsset"

\* C15: SwitchToNextAsset called while the phase is Failed throws and leaves
\* the phase, the attempt count, every timestamp and the ledger as they were;
\* and no call of ProcessTick ends with that exception, that is, the tick
\* never calls SwitchToNextAsset while the phase is Failed.
C15_FailedBlocks ==
    [][/\ Tick => ~out'.threw
       /\ Switched /\ nRequestedZnodeAssets = ZNODE_SYNC_FAILED =>
             /\ out'.threw
             /\ UNCHANGED <<nRequestedZnodeAssets, nRequestedZnodeAttempt,
                            nTimeAssetSyncStarted, nTimeLastZnodeList,
                            nTimeLastPaymentVote, nTimeLastGovernanceItem,
                            nTimeLastFailure, nCountFailures, netfulfilledman>>]_vars

\* SwitchToNextAsset has just thrown in Failed.
C15_Witness ==
    /\ call = "SwitchToNextAsset" /\ out.threw
    /\ nRequestedZnodeAssets = ZNODE_SYNC_FAILED

----------------------------------------------------------------------------
(* Properties of the finished sync.                                         *)

\* The members of the object keep their values across the step.
SameSyncState ==
    UNCHANGED <<nRequestedZnodeAssets, nRequestedZnodeAttempt,
                nTimeAssetSyncStarted, nTimeLastZnodeList, nTimeLastPaymentVote,
                nTimeLastGovernanceItem, nTimeLastFailure, nCountFailures>>

\* The step is a tick that read a roster count of 0 in Finished.
EmptyRosterTick == Tick /\ out'.restart

\* C16 as stated: once the phase is Finished it stays Finished under ticks,
\* evaluations of the sync gate, tip updates and status messages, unless a
\* tick reads a roster count of 0; and a tick in Finished that reads another
\* count sends no request and changes no member.
C16_FinishedTerminalAsStated ==
    [][nRequestedZnodeAssets = ZNODE_SYNC_FINISHED /\ ~EmptyRosterTick
        => /\ nRequestedZnodeAssets' = ZNODE_SYNC_FINISHED
           /\ Tick => SameSyncState /\ out'.sent = {}]_vars

\* C16: the same, except that an evaluation of the sync gate made more than
\* 3600 seconds after the previous one performs the full reset and so takes
\* the phase from Finished to Initial.
C16_FinishedTerminal ==
    [][nRequestedZnodeAssets = ZNODE_SYNC_FINISHED /\ ~EmptyRosterTick
        => /\ \/ nRequestedZnodeAssets' = ZNODE_SYNC_FINISHED
              \/ /\ ~Tick /\ call' = "IsBlockchainSynced" /\ out'.timeCheck
                 /\ now - nTimeLastProcess > 3600
                 /\ nRequestedZnodeAssets' = ZNODE_SYNC_INITIAL
           /\ Tick => /\ SameSyncState /\ out'.sent = {}
                       /\ UNCHANGED <<netfulfilledman, fBlockchainSynced,
                                      nTimeLastProcess, fFirstBlockAccepted>>]_vars

\* A working tick has just run in Finished and left it so.
C16_Witness ==
    /\ nTick = 1 /\ out.working /\ ~out.restart /\ out.moves = 0
    /\ nRequestedZnodeAssets = ZNODE_SYNC_FINISHED

----------------------------------------------------------------------------
(* Chain-sync gating.                                                       *)

\* The tick's evaluation of the sync gate at line 313, made in the state the
\* tick starts in.
GateAtTick(in) == IsBlockchainSynced(Cur, FALSE, now, in.env, in.vNodes)

\* Some evaluation of the sync gate in the tick returned not-synced.
NotSynced(p) == \E i \in 1..Len(p.eff.gate) : ~p.eff.gate[i]

----------------------------------------------------------------------------
(* The fast test mode.                                                      *)

\* The snapshot holds a peer that is not a role connection; the first one.
HasFirst(in) == \E i \in 1..Len(in.vNodes) : ~RoleConnection(in.vNodes[i], in)

First(in) ==
    in.vNodes[CHOOSE i \in 1..Len(in.vNodes) :
                  /\ ~RoleConnection(in.vNodes[i], in)
                  /\ \A j \in 1..(i - 1) : RoleConnection(in.vNodes[j], in)]

\* The request the sequence has for an attempt count.
Sequenced(a, addr) ==
    IF a \in 0..2 THEN {<<addr, GETSPORKS>>}
    ELSE IF a = 3 THEN {<<addr, DSEG>>}
    ELSE IF a \in 4..5 THEN {<<addr, ZNODEPAYMENTSYNC>>}
    ELSE {}

\* What the pass does with the object b it starts with: one request to the
\* first eligible peer by the attempt count of b, Finished from 6 on.
Paced(b, p, in) ==
    /\ p.eff.sent = Sequenced(b.nRequestedZnodeAttempt, First(in).addr)
    /\ p.nRequestedZnodeAssets =
          IF b.nRequestedZnodeAttempt >= 6 THEN ZNODE_SYNC_FINISHED
          ELSE b.nRequestedZnodeAssets

\* C18 as stated: in fast test mode with an eligible peer, a working tick
\* that reaches the per-peer pass leaves the attempt count one above the one
\* the tick started with, and sends the first eligible peer the request of
\* the attempt count at the start of the pass.
C18_FastSequenceAsStated ==
    Working /\ network = REGTEST =>
        \A in \in TickInputs :
            LET b == BeforeLoop(Cur, now, in)
                p == ProcessTickBody(Cur, now, in)
            IN  ~b.return /\ HasFirst(in) =>
                    /\ p.nRequestedZnodeAttempt = nRequestedZnodeAttempt + 1
                    /\ Paced(b.m, p, in)

\* C18: in fast test mode with an eligible peer, a working tick that reaches
\* the per-peer pass leaves the attempt count one above the one at the start
\* of the pass, which is 0 when the tick has changed the phase before the
\* pass, and sends the first eligible peer, and no other, the request of
\* that count: feature flags at 0-2, the roster refresh at 3, the
\* payment-vote sync at 4-5, nothing from 6 on, where the phase becomes
\* Finished.
C18_FastSequence ==
    Working /\ network = REGTEST =>
        \A in \in TickInputs :
            LET b == BeforeLoop(Cur, now, in)
                p == ProcessTickBody(Cur, now, in)
            IN  ~b.return /\ HasFirst(in) =>
                    /\ p.nRequestedZnodeAttempt = b.m.nRequestedZnodeAttempt + 1
                    /\ b.m.eff.moves > 0 => b.m.nRequestedZnodeAttempt = 0
                    /\ b.m.eff.moves = 0 =>
                           b.m.nRequestedZnodeAttempt = nRequestedZnodeAttempt
                    /\ Paced(b.m, p, in)

\* A tick in fast test mode has just found the attempt count at 6 and
\* finished the sync.
C18_Witness ==
    /\ nTick = 1 /\ network = REGTEST /\ out.working
    /\ nRequestedZnodeAssets = ZNODE_SYNC_FINISHED /\ nRequestedZnodeAttempt = 7
    /\ out.moves = 1 /\ out.sent = {}

----------------------------------------------------------------------------
(* The throttle of the sync gate.                                           *)

\* The previous evaluation was less than ZNODE_SYNC_TICK_SECONDS ago.
Throttled ==
    nTimeLastProcess # Unset /\ now - nTimeLastProcess < ZNODE_SYNC_TICK_SECONDS

\* The evaluation left the statics of the gate as they were.
SameStatics(g) ==
    /\ g.fBlockchainSynced = fBlockchainSynced
    /\ g.nTimeLastProcess = nTimeLastProcess
    /\ g.fFirstBlockAccepted = fFirstBlockAccepted

\* There is no tip or no best header, or the chain is imported or reindexed.
NoIndex(in) ==
    \/ pCurrentBlockIndex = NULL \/ in.env.pindexBestHeader = NULL
    \/ in.env.fImporting \/ in.env.fReindex

\* C19 as stated: an evaluation with fBlockAccepted false, made less than
\* ZNODE_SYNC_TICK_SECONDS after the previous one, returns the memoized flag
\* and leaves the flag, the evaluation time and the first-block flag as they
\* were.
C19_GateThrottleAsStated ==
    Throttled =>
        \A in \in GateInputs :
            ~in.fBlockAccepted =>
                /\ GateRet(Evaluation(in)) = fBlockchainSynced
                /\ SameStatics(Evaluation(in))

\* C19: an evaluation with fBlockAccepted false, made less than
\* ZNODE_SYNC_TICK_SECONDS after the previous one, leaves the flag, the
\* evaluation time and the first-block flag as they were; it returns the
\* memoized flag when there is a tip and a best header and the chain is not
\* imported or reindexed, and not-synced otherwise.
C19_GateThrottle ==
    Throttled =>
        \A in \in GateInputs :
            ~in.fBlockAccepted =>
                LET g == Evaluation(in)
                IN  /\ GateRet(g) = (fBlockchainSynced /\ ~NoIndex(in))
                    /\ SameStatics(g)
                    /\ g.eff.nSkipped = IF NoIndex(in) THEN 0 ELSE 1

\* An evaluation has just been skipped and returned the memoized flag, true.
C19_Witness ==
    /\ call = "IsBlockchainSynced" /\ out.nSkipped = 1 /\ out.gate = <<TRUE>>
    /\ fBlockchainSynced /\ nTimeLastProcess = now

----------------------------------------------------------------------------
(* The checkpoint protection of the sync gate.                              *)

\* Every call of the gate: either argument, every chain, every peer sample.
Evaluations == [fBlockAccepted : BOOLEAN, env : ChainEnvs, vNodes : GateSnapshots]

\* Checkpoints are enforced and the tip is below the checkpoint estimate.
Below(in) ==
    /\ pCurrentBlockIndex # NULL
    /\ in.env.fCheckpointsEnabled /\ nHeight < in.env.nTotalBlocksEstimate

----------------------------------------------------------------------------
(* Who is asked for the roster and the payment votes.                       *)

\* The ledger label of a phase request.
LabelOf(msg) == IF msg = DSEG THEN "znode-list-sync" ELSE "znode-payment-sync"

\* The peer of the snapshot at an address.
PeerAt(in, addr) == CHOOSE n \in Range(in.vNodes) : n.addr = addr

\* C21: in normal network mode, whenever a tick sends a roster-refresh or a
\* payment-vote request to a peer, the peer is in the snapshot, is not a
\* service-node connection and not inbound to a local service node, has no
\* full-sync record, was marked spork-sync before the tick, has at least the
\* payment minimum protocol version, and was not marked for the label of the
\* request before the tick; after the tick it is marked for it.
C21_RequestEligibility ==
    Working /\ Normal =>
        \A in \in TickInputs :
            LET p == ProcessTickBody(Cur, now, in)
            IN  \A r \in p.eff.sent :
                    r[2] \in {DSEG, ZNODEPAYMENTSYNC, LOWDATA} =>
                        /\ \E n \in Range(in.vNodes) : n.addr = r[1]
                        /\ ~PeerAt(in, r[1]).fZnode
                        /\ ~(in.fZNode /\ PeerAt(in, r[1]).fInbound)
                        /\ PeerAt(in, r[1]).nVersion >= GetMinZnodePaymentsProto
                        /\ <<r[1], "full-sync">> \notin netfulfilledman
                        /\ <<r[1], "spork-sync">> \in netfulfilledman
                        /\ <<r[1], LabelOf(r[2])>> \notin netfulfilledman
                        /\ <<r[1], LabelOf(r[2])>> \in p.netfulfilledman

\* A tick has just asked the second peer for the payment votes, the first
\* one having been asked before.
C21_Witness ==
    /\ nTick = 1 /\ Normal /\ out.working
    /\ <<2, ZNODEPAYMENTSYNC>> \in out.sent
    /\ <<1, "znode-payment-sync">> \in netfulfilledman
    /\ <<2, "znode-payment-sync">> \in netfulfilledman
    /\ nRequestedZnodeAttempt = 2

----------------------------------------------------------------------------
(* The only cause of failure.                                               *)

\* The step is one in which time passes.
TimePasses == AdvanceTime \/ Sleep

\* C22: the phase becomes Failed only in a tick in normal network mode that
\* starts in Roster or PaymentVotes past the timeout of the phase with an
\* attempt count of 0, and that tick stores its time as the failure time;
\* while the phase stays Failed the attempt count is 0 and the failure time
\* is the one that tick stored; in fast test mode the phase is never Failed.
C22_OnlyFailure ==
    [][nRequestedZnodeAssets' = ZNODE_SYNC_FAILED
        => /\ network = MAIN
           /\ nRequestedZnodeAttempt' = 0
           /\ nRequestedZnodeAssets # ZNODE_SYNC_FAILED
                 => /\ Tick /\ Working /\ Overdue
                    /\ nRequestedZnodeAttempt = 0
                    /\ nTimeLastFailure' = now
           /\ nRequestedZnodeAssets = ZNODE_SYNC_FAILED
                 => \/ nTimeLastFailure' = nTimeLastFailure
                    \/ TimePasses]_vars

\* The sync gate has just been evaluated half a minute after the failure,
\* and the phase is still Failed.
C22_Witness ==
    /\ call = "IsBlockchainSynced" /\ out.gate # <<>>
    /\ nRequestedZnodeAssets = ZNODE_SYNC_FAILED /\ nRequestedZnodeAttempt = 0
    /\ nTimeLastFailure = now - Delta

----------------------------------------------------------------------------
(* Termination of a sync run.                                               *)

\* There is a tip, the sync gate has memoized synced, and no evaluation in
\* the last handler reported not-synced or performed the idle reset.
StaysSynced ==
    /\ pCurrentBlockIndex # NULL /\ fBlockchainSynced
    /\ ~out.timeCheck /\ \A i \in 1..Len(out.gate) : out.gate[i]

Ended == nRequestedZnodeAssets \in {ZNODE_SYNC_FINISHED, ZNODE_SYNC_FAILED}

\* C23: in normal network mode, with ProcessTick called again and again and
\* time advancing, a run in which the sync gate from some point on always
\* reports synced reaches Finished or Failed, whatever the peers are.
C23_TerminatesAsStated == Normal /\ <>[]StaysSynced => <>Ended

\* A working tick has just found the roster phase past its timeout, with the
\* gate synced and no peer connected, and left it as it was.
C23_Witness ==
    /\ nTick = 1 /\ Normal /\ out.working /\ out.gate = <<TRUE>>
    /\ nRequestedZnodeAssets = ZNODE_SYNC_LIST
    /\ now - nTimeLastZnodeList > ZNODE_SYNC_TIMEOUT_SECONDS
    /\ netfulfilledman = {} /\ out.sent = {} /\ out.fDisconnect = {}

====
